---- MODULE Spec2Model ----
(***************************************************************************)
(* Model of the classification-and-aggregation core of the Slurm           *)
(* Prometheus exporter (package slurm, build tag 2405).                    *)
(*                                                                         *)
(* The package is a set of synchronous functions over one snapshot of the  *)
(* REST responses.  The state is the snapshot (jobs, nodes, partitions,    *)
(* diag, shares), the function that was called last, the record it was     *)
(* called on, and what it returned.  The order in which a range visits a   *)
(* map is not fixed by the runtime and is chosen by the calling action.    *)
(* Strings are modelled as strings and the string functions                *)
(* (ToLower, regexp prefix match, Split, Contains, Atoi) character by      *)
(* character.  A Go pointer is <<>> (nil) or <<v>>; a Go slice is a record *)
(* [null, elems] so that a nil slice and an empty one stay distinct.  A    *)
(* run-time panic (index out of range, nil dereference) is the outcome     *)
(* "panic".                                                                *)
(***************************************************************************)
EXTENDS Integers, Sequences, FiniteSets, TLC

VARIABLES jobs, nodes, partitions, diag, shares, call, argi, ret

vars == <<jobs, nodes, partitions, diag, shares, call, argi, ret>>

(***************************************************************************)
(* Bounds of the model.                                                    *)
(***************************************************************************)
\* entries in one raw multi-valued state field
MaxStates == 2
\* fragments joined by commas into one TRES string
MaxFragments == 2
\* job records in one jobs response
MaxJobs == 2
\* node records in one nodes response
MaxNodes == 2

(***************************************************************************)
(* Go values.                                                              *)
(***************************************************************************)
Nil == <<>>
Ptr(v) == <<v>>
IsNil(p) == p = <<>>
Deref(p) == p[1]

NilSlice == [null |-> TRUE, elems |-> <<>>]
Slice(s) == [null |-> FALSE, elems |-> s]

\* (value, nil)
Ok(v) == [kind |-> "ok", val |-> v, msg |-> ""]
\* (nil, error)
Err(m) == [kind |-> "err", val |-> Nil, msg |-> m]
\* (0, error)
ErrInt(m) == [kind |-> "err", val |-> 0, msg |-> m]
\* run-time panic
Panic == [kind |-> "panic", val |-> Nil, msg |-> ""]
NoRet == [kind |-> "none", val |-> Nil, msg |-> ""]

\* a diagnostics response whose statistics report nothing
NoDiag ==
  [Statistics |->
     [ServerThreadCount |-> Nil, AgentQueueSize |-> Nil, DbdAgentQueueSize |-> Nil,
      ScheduleCycleLast |-> Nil, ScheduleCycleMean |-> Nil,
      ScheduleCyclePerMinute |-> Nil, BfDepthMean |-> Nil, BfCycleLast |-> Nil,
      BfCycleMean |-> Nil, BfBackfilledJobs |-> Nil, BfLastBackfilledJobs |-> Nil,
      BfBackfilledHetJobs |-> Nil]]

(***************************************************************************)
(* String functions of the Go standard library, as the code uses them.     *)
(***************************************************************************)
UpperChars == "ABCDEFGHIJKLMNOPQRSTUVWXYZ"
LowerChars == "abcdefghijklmnopqrstuvwxyz"

\* the lower-case letter of every upper-case letter
LowerOf ==
  [c \in {SubSeq(UpperChars, i, i) : i \in 1..Len(UpperChars)} |->
     LET i == CHOOSE k \in 1..Len(UpperChars) : SubSeq(UpperChars, k, k) = c
     IN SubSeq(LowerChars, i, i)]

LowerChar(c) == IF c \in DOMAIN LowerOf THEN LowerOf[c] ELSE c

RECURSIVE ToLower(_)
ToLower(s) ==
  IF Len(s) = 0 THEN "" ELSE LowerChar(SubSeq(s, 1, 1)) \o ToLower(SubSeq(s, 2, Len(s)))

HasPrefix(s, p) == Len(s) >= Len(p) /\ SubSeq(s, 1, Len(p)) = p

\* regexp.MustCompile(`^prefix`).MatchString(s), the prefix holding no metacharacter
MatchString(prefix, s) == HasPrefix(s, prefix)

Contains(s, sub) ==
  \E i \in 1..(Len(s) - Len(sub) + 1) : SubSeq(s, i, i + Len(sub) - 1) = sub

\* strings.Split(s, sep) for a one-character separator: always at least one part
RECURSIVE splitFrom(_, _, _, _)
splitFrom(s, sep, i, cur) ==
  IF i > Len(s) THEN <<cur>>
  ELSE IF SubSeq(s, i, i) = sep THEN <<cur>> \o splitFrom(s, sep, i + 1, "")
  ELSE splitFrom(s, sep, i + 1, cur \o SubSeq(s, i, i))

Split(s, sep) == splitFrom(s, sep, 1, "")

Digits == "0123456789"
IsDigit(c) == \E i \in 1..Len(Digits) : SubSeq(Digits, i, i) = c
DigitVal(c) == (CHOOSE i \in 1..Len(Digits) : SubSeq(Digits, i, i) = c) - 1

RECURSIVE digitsVal(_, _)
digitsVal(s, acc) ==
  IF Len(s) = 0 THEN acc
  ELSE digitsVal(SubSeq(s, 2, Len(s)), acc * 10 + DigitVal(SubSeq(s, 1, 1)))

AllDigits(s) == Len(s) > 0 /\ \A i \in 1..Len(s) : IsDigit(SubSeq(s, i, i))

\* strconv.Atoi: an optional sign, then one or more decimal digits
Atoi(s) ==
  LET signed == Len(s) > 0 /\ SubSeq(s, 1, 1) \in {"+", "-"}
      body   == IF signed THEN SubSeq(s, 2, Len(s)) ELSE s
  IN IF AllDigits(body)
     THEN [ok |-> TRUE,
           n  |-> IF signed /\ SubSeq(s, 1, 1) = "-" THEN 0 - digitsVal(body, 0)
                  ELSE digitsVal(body, 0)]
     ELSE [ok |-> FALSE, n |-> 0]

(***************************************************************************)
(* Records of the REST responses (only the fields the functions read).     *)
(***************************************************************************)
\* Account, UserName and Cpus.Number are pointers, JobState is a slice; the Cpus
\* struct itself is taken to be there
Job(account, user, state, cpus) ==
  [Account |-> account, UserName |-> user, JobState |-> state, Cpus |-> cpus]

\* Cpus, AllocIdleCpus, Tres and TresUsed are pointers, State is a slice
Node(state, cpus, idle, tres, tresUsed) ==
  [State |-> state, Cpus |-> cpus, AllocIdleCpus |-> idle,
   Tres |-> tres, TresUsed |-> tresUsed]

(***************************************************************************)
(* Field accessors.                                                        *)
(***************************************************************************)
GetJobAccountName(job) ==
  IF IsNil(job.Account) THEN Err("account name not found in job")
  ELSE Ok(job.Account)

GetJobCPUs(job) ==
  IF IsNil(job.Cpus) THEN Err("failed to find cpu count in job")
  ELSE Ok(Ptr(Deref(job.Cpus)))

(***************************************************************************)
(* State classifiers.                                                      *)
(***************************************************************************)
\* first rule of an ordered rule list whose prefix matches; 0 when none does
RECURSIVE firstMatch(_, _, _)
firstMatch(rules, state, i) ==
  IF i > Len(rules) THEN 0
  ELSE IF MatchString(rules[i][1], state) THEN i
  ELSE firstMatch(rules, state, i + 1)

\* the rule list with the prefix of one rule cut short
jobStateRulesShort ==
  << <<"completed", "JobStateCompleted">>,
     <<"pending", "JobStatePending">>,
     <<"failed", "JobStateFailed">>,
     <<"running", "JobStateRunning">>,
     <<"suspended", "JobStateSuspended">>,
     <<"out_of_memory", "JobStateOutOfMemory">>,
     <<"timeout", "JobStateTimeout">>,
     <<"cancelled", "JobStateCancelled">>,
     <<"complet", "JobStateCompleting">>,
     <<"configuring", "JobStateConfiguring">>,
     <<"node_fail", "JobStateNodeFail">>,
     <<"preempted", "JobStatePreempted">> >>

\* the switch of GetJobState, in the order of its cases
jobStateRules ==
  << <<"completed", "JobStateCompleted">>,
     <<"pending", "JobStatePending">>,
     <<"failed", "JobStateFailed">>,
     <<"running", "JobStateRunning">>,
     <<"suspended", "JobStateSuspended">>,
     <<"out_of_memory", "JobStateOutOfMemory">>,
     <<"timeout", "JobStateTimeout">>,
     <<"cancelled", "JobStateCancelled">>,
     <<"completing", "JobStateCompleting">>,
     <<"configuring", "JobStateConfiguring">>,
     <<"node_fail", "JobStateNodeFail">>,
     <<"preempted", "JobStatePreempted">> >>

GetJobState(job) ==
  LET states == job.JobState IN
  IF states.null THEN Err("job state not found in job")
  ELSE IF Len(states.elems) = 0 THEN Panic
  ELSE LET state == ToLower(states.elems[1])
           r     == firstMatch(jobStateRules, state, 1)
       IN IF r = 0
          THEN Err("failed to match job state against known states: " \o state)
          ELSE Ok(Ptr(jobStateRules[r][2]))

\* the switch of GetNodeStates, in the order of its cases
nodeStateRules ==
  << <<"alloc", "NodeStateAlloc">>,
     <<"comp", "NodeStateComp">>,
     <<"down", "NodeStateDown">>,
     <<"drain", "NodeStateDrain">>,
     <<"fail", "NodeStateFail">>,
     <<"err", "NodeStateErr">>,
     <<"idle", "NodeStateIdle">>,
     <<"maint", "NodeStateMaint">>,
     <<"mix", "NodeStateMix">>,
     <<"res", "NodeStateResv">>,
     <<"not_responding", "NodeStateNotResponding">>,
     <<"invalid", "NodeStateInvalid">>,
     <<"invalid_reg", "NodeStateInvalidReg">> >>

\* the range loop leaving an unmatched entry out instead of failing
RECURSIVE nodeStatesSkipLoop(_, _, _)
nodeStatesSkipLoop(elems, i, nodeStates) ==
  IF i > Len(elems) THEN Ok(Ptr(nodeStates))
  ELSE LET r == firstMatch(nodeStateRules, ToLower(elems[i]), 1)
       IN IF r = 0 THEN nodeStatesSkipLoop(elems, i + 1, nodeStates)
          ELSE nodeStatesSkipLoop(elems, i + 1, Append(nodeStates, nodeStateRules[r][2]))

\* the range loop of GetNodeStates from entry i on, nodeStates being the slice so far
RECURSIVE nodeStatesLoop(_, _, _)
nodeStatesLoop(elems, i, nodeStates) ==
  IF i > Len(elems) THEN Ok(Ptr(nodeStates))
  ELSE LET state == ToLower(elems[i])
           r     == firstMatch(nodeStateRules, state, 1)
       IN IF r = 0
          THEN Err("failed to match cpu state against known states: " \o state)
          ELSE nodeStatesLoop(elems, i + 1, Append(nodeStates, nodeStateRules[r][2]))

GetNodeStates(node) ==
  LET states == node.State IN
  IF states.null THEN Err("node state not found in node")
  ELSE nodeStatesLoop(states.elems, 1, <<>>)

(***************************************************************************)
(* Resource-string extraction.                                             *)
(***************************************************************************)
\* the scan going on to the next pair when a GPU pair does not parse
RECURSIVE gpuScanSkipBad(_, _)
gpuScanSkipBad(parts, i) ==
  IF i > Len(parts) THEN Ok(0)
  ELSE LET p  == parts[i]
           gp == Split(p, "=")
       IN IF Contains(p, "gres/gpu=") /\ Len(gp) = 2 /\ Atoi(gp[2]).ok
          THEN Ok(Atoi(gp[2]).n)
          ELSE gpuScanSkipBad(parts, i + 1)

\* the range loop over the comma-separated parts from part i on; the loops of
\* GetNodeGPUTotal and GetNodeGPUAllocated are the same text
RECURSIVE gpuScan(_, _)
gpuScan(parts, i) ==
  IF i > Len(parts) THEN Ok(0)
  ELSE LET p == parts[i] IN
       IF Contains(p, "gres/gpu=")
       THEN LET gp == Split(p, "=") IN
            IF Len(gp) # 2
            THEN ErrInt("found gpu in tres but failed to parse: " \o p)
            ELSE LET n == Atoi(gp[2]) IN
                 IF ~n.ok
                 THEN ErrInt("failed to parse number of gpus from tres: " \o p)
                 ELSE Ok(n.n)
       ELSE gpuScan(parts, i + 1)

GetNodeGPUTotal(node) ==
  LET tres == node.Tres IN
  IF IsNil(tres) THEN Panic
  ELSE gpuScan(Split(Deref(tres), ","), 1)

GetNodeGPUAllocated(node) ==
  LET tres == node.TresUsed IN
  IF IsNil(tres) THEN Panic
  ELSE gpuScan(Split(Deref(tres), ","), 1)

(***************************************************************************)
(* Account job tally.  A Go map is a function from its keys; the counters  *)
(* are float64 holding whole numbers.                                      *)
(***************************************************************************)
NewJobMetrics ==
  [pending |-> 0, pending_cpus |-> 0, running |-> 0, running_cpus |-> 0, suspended |-> 0]

\* the switch on the job state that tallies one job under a key (the same text
\* in ParseAccountsMetrics and ParseUsersMetrics)
tallyJob(m, key, state, cpus) ==
  IF state = "JobStatePending"
  THEN [m EXCEPT ![key].pending = @ + 1, ![key].pending_cpus = @ + cpus]
  ELSE IF state = "JobStateRunning"
  THEN [m EXCEPT ![key].running = @ + 1, ![key].running_cpus = @ + cpus]
  ELSE IF state = "JobStateSuspended"
  THEN [m EXCEPT ![key].suspended = @ + 1]
  ELSE m

\* the loop creating the key only once the job has resolved
RECURSIVE accountsLoopKeyLate(_, _, _)
accountsLoopKeyLate(js, i, accounts) ==
  IF i > Len(js) THEN Ok(Ptr(accounts))
  ELSE LET j == js[i]
           account == GetJobAccountName(j)
           state == GetJobState(j)
           cpus == GetJobCPUs(j)
       IN IF account.kind = "err" THEN accountsLoopKeyLate(js, i + 1, accounts)
          ELSE IF state.kind = "panic" THEN Panic
          ELSE IF state.kind = "err" \/ cpus.kind = "err"
          THEN accountsLoopKeyLate(js, i + 1, accounts)
          ELSE LET name == Deref(account.val)
                   withKey == IF name \in DOMAIN accounts THEN accounts
                              ELSE accounts @@ (name :> NewJobMetrics)
               IN accountsLoopKeyLate(js, i + 1,
                    tallyJob(withKey, name, Deref(state.val), Deref(cpus.val)))

\* the range loop of ParseAccountsMetrics from job i on
RECURSIVE accountsLoop(_, _, _)
accountsLoop(js, i, accounts) ==
  IF i > Len(js) THEN Ok(Ptr(accounts))
  ELSE LET j == js[i]
           account == GetJobAccountName(j)
       IN IF account.kind = "err" THEN accountsLoop(js, i + 1, accounts)
          ELSE LET name == Deref(account.val)
                   withKey == IF name \in DOMAIN accounts THEN accounts
                              ELSE accounts @@ (name :> NewJobMetrics)
                   state == GetJobState(j)
               IN IF state.kind = "panic" THEN Panic
                  ELSE IF state.kind = "err" THEN accountsLoop(js, i + 1, withKey)
                  ELSE LET cpus == GetJobCPUs(j)
                       IN IF cpus.kind = "err" THEN accountsLoop(js, i + 1, withKey)
                          ELSE accountsLoop(js, i + 1,
                                 tallyJob(withKey, name, Deref(state.val), Deref(cpus.val)))

ParseAccountsMetrics(jobsresp) == accountsLoop(jobsresp, 1, <<>>)

(***************************************************************************)
(* User job tally.                                                         *)
(***************************************************************************)
NewUserJobMetrics ==
  [pending |-> 0, pending_cpus |-> 0, running |-> 0, running_cpus |-> 0, suspended |-> 0]

\* the loop going on to the next job when one does not resolve
RECURSIVE usersLoopSkip(_, _, _)
usersLoopSkip(js, i, users) ==
  IF i > Len(js) THEN Ok(Ptr(users))
  ELSE LET j == js[i] IN
       IF IsNil(j.UserName) THEN Panic
       ELSE LET user == Deref(j.UserName)
                withKey == IF user \in DOMAIN users THEN users
                           ELSE users @@ (user :> NewUserJobMetrics)
                jobState == GetJobState(j)
                jobCpus == GetJobCPUs(j)
            IN IF jobState.kind = "panic" THEN Panic
               ELSE IF jobState.kind = "err" \/ jobCpus.kind = "err"
               THEN usersLoopSkip(js, i + 1, withKey)
               ELSE usersLoopSkip(js, i + 1,
                      tallyJob(withKey, user, Deref(jobState.val), Deref(jobCpus.val)))

\* the range loop of ParseUsersMetrics from job i on
RECURSIVE usersLoop(_, _, _)
usersLoop(js, i, users) ==
  IF i > Len(js) THEN Ok(Ptr(users))
  ELSE LET j == js[i] IN
       IF IsNil(j.UserName) THEN Panic
       ELSE LET user == Deref(j.UserName)
                withKey == IF user \in DOMAIN users THEN users
                           ELSE users @@ (user :> NewUserJobMetrics)
                jobState == GetJobState(j)
            IN IF jobState.kind = "panic" THEN Panic
               ELSE IF jobState.kind = "err"
               THEN Err("failed to get job state: " \o jobState.msg)
               ELSE LET jobCpus == GetJobCPUs(j)
                    IN IF jobCpus.kind = "err"
                       THEN Err("failed to get job cpus: " \o jobCpus.msg)
                       ELSE usersLoop(js, i + 1,
                              tallyJob(withKey, user, Deref(jobState.val), Deref(jobCpus.val)))

ParseUsersMetrics(jobsResp) == usersLoop(jobsResp, 1, <<>>)

(***************************************************************************)
(* Cluster CPU tally.                                                      *)
(***************************************************************************)
NewCPUsMetrics == [alloc |-> 0, idle |-> 0, other |-> 0, total |-> 0]

\* the job loop returning an error for a job that does not resolve
RECURSIVE cpusJobsLoopFailFast(_, _, _)
cpusJobsLoopFailFast(js, i, cm) ==
  IF i > Len(js) THEN Ok(Ptr(cm))
  ELSE LET state == GetJobState(js[i])
           cpus == GetJobCPUs(js[i])
       IN IF state.kind = "panic" THEN Panic
          ELSE IF state.kind = "err" THEN Err("failed to get job state: " \o state.msg)
          ELSE IF cpus.kind = "err" THEN Err("failed to get job cpus: " \o cpus.msg)
          ELSE IF Deref(state.val) = "JobStateRunning"
          THEN cpusJobsLoopFailFast(js, i + 1, [cm EXCEPT !.alloc = @ + Deref(cpus.val)])
          ELSE cpusJobsLoopFailFast(js, i + 1, cm)

\* the range loop of ParseCPUsMetrics over the jobs from job i on
RECURSIVE cpusJobsLoop(_, _, _)
cpusJobsLoop(js, i, cm) ==
  IF i > Len(js) THEN Ok(Ptr(cm))
  ELSE LET state == GetJobState(js[i]) IN
       IF state.kind = "panic" THEN Panic
       ELSE IF state.kind = "err" THEN cpusJobsLoop(js, i + 1, cm)
       ELSE LET cpus == GetJobCPUs(js[i]) IN
            IF cpus.kind = "err" THEN cpusJobsLoop(js, i + 1, cm)
            ELSE IF Deref(state.val) = "JobStateRunning"
            THEN cpusJobsLoop(js, i + 1, [cm EXCEPT !.alloc = @ + Deref(cpus.val)])
            ELSE cpusJobsLoop(js, i + 1, cm)

\* the inner range loop over one node's classified states from state k on
RECURSIVE cpusIdleLoop(_, _, _, _)
cpusIdleLoop(n, nodeStates, k, cm) ==
  IF k > Len(nodeStates) THEN Ok(Ptr(cm))
  ELSE IF nodeStates[k] \in {"NodeStateMix", "NodeStateAlloc", "NodeStateIdle"}
  THEN IF IsNil(n.AllocIdleCpus) THEN Panic
       ELSE cpusIdleLoop(n, nodeStates, k + 1,
              [cm EXCEPT !.idle = @ + Deref(n.AllocIdleCpus)])
  ELSE cpusIdleLoop(n, nodeStates, k + 1, cm)

\* the node loop counting the nodes that report one CPU like the others
RECURSIVE cpusNodesLoopNoSkip(_, _, _)
cpusNodesLoopNoSkip(ns, i, cm) ==
  IF i > Len(ns) THEN Ok(Ptr(cm))
  ELSE LET n == ns[i] IN
       IF IsNil(n.Cpus) THEN Panic
       ELSE LET withTotal == [cm EXCEPT !.total = @ + Deref(n.Cpus)]
                nodeStates == GetNodeStates(n)
            IN IF nodeStates.kind = "err"
               THEN Err("failed to get node state for cpu metrics: " \o nodeStates.msg)
               ELSE LET inner == cpusIdleLoop(n, Deref(nodeStates.val), 1, withTotal)
                    IN IF inner.kind = "panic" THEN Panic
                       ELSE cpusNodesLoopNoSkip(ns, i + 1, Deref(inner.val))

\* the range loop of ParseCPUsMetrics over the nodes from node i on
RECURSIVE cpusNodesLoop(_, _, _)
cpusNodesLoop(ns, i, cm) ==
  IF i > Len(ns) THEN Ok(Ptr(cm))
  ELSE LET n == ns[i] IN
       IF IsNil(n.Cpus) THEN Panic
       ELSE IF Deref(n.Cpus) = 1 THEN cpusNodesLoop(ns, i + 1, cm)
       ELSE LET withTotal == [cm EXCEPT !.total = @ + Deref(n.Cpus)]
                nodeStates == GetNodeStates(n)
            IN IF nodeStates.kind = "err"
               THEN Err("failed to get node state for cpu metrics: " \o nodeStates.msg)
               ELSE LET inner == cpusIdleLoop(n, Deref(nodeStates.val), 1, withTotal)
                    IN IF inner.kind = "panic" THEN Panic
                       ELSE cpusNodesLoop(ns, i + 1, Deref(inner.val))

ParseCPUsMetrics(nodesResp, jobsResp) ==
  LET afterJobs == cpusJobsLoop(jobsResp, 1, NewCPUsMetrics) IN
  IF afterJobs.kind # "ok" THEN afterJobs
  ELSE LET afterNodes == cpusNodesLoop(nodesResp, 1, Deref(afterJobs.val)) IN
       IF afterNodes.kind # "ok" THEN afterNodes
       ELSE LET cm == Deref(afterNodes.val)
            IN Ok(Ptr([cm EXCEPT !.other = cm.total - cm.idle - cm.alloc]))

(***************************************************************************)
(* Inputs.                                                                 *)
(***************************************************************************)
SeqsUpTo(S, n) == UNION {[1..k -> S] : k \in 0..n}

\* raw job-state tokens: the names in several spellings, longer and shorter
\* spellings, and flags of the scheduler that no rule knows
JobTokens ==
  {"PENDING", "RUNNING", "SUSPENDED", "CANCELLED", "COMPLETING", "COMPLETED",
   "CONFIGURING", "FAILED", "TIMEOUT", "PREEMPTED", "NODE_FAIL", "OUT_OF_MEMORY",
   "completed", "Out_Of_Memory", "Running", "PENDINGX", "COMPLET", "xRUNNING",
   "BOOT_FAIL", "DEADLINE", ""}

\* raw node-state tokens
NodeTokens ==
  {"ALLOCATED", "COMPLETING", "DOWN", "DRAIN", "FAIL", "ERROR", "IDLE",
   "MAINTENANCE", "MIXED", "RESERVED", "NOT_RESPONDING", "INVALID", "INVALID_REG",
   "Mixed", "idle", "PLANNED", "FUTURE", ""}

RawStates(tokens) == {NilSlice} \cup {Slice(s) : s \in SeqsUpTo(tokens, MaxStates)}

ClassifyJobs == {Job(Ptr("acct"), Ptr("alice"), st, Ptr(4)) : st \in RawStates(JobTokens)}

ClassifyNodes == {Node(st, Ptr(8), Ptr(2), Ptr(""), Ptr("")) : st \in RawStates(NodeTokens)}

(***************************************************************************)
(* The classifiers called on one record.                                   *)
(***************************************************************************)
InitClassify ==
  /\ \/ jobs \in {<<j>> : j \in ClassifyJobs} /\ nodes = <<>>
     \/ jobs = <<>> /\ nodes \in {<<n>> : n \in ClassifyNodes}
  /\ partitions = <<>>
  /\ diag = NoDiag
  /\ shares = <<>>
  /\ call = "none"
  /\ argi = 0
  /\ ret = NoRet

CallGetJobState ==
  \E i \in 1..Len(jobs) :
    /\ call' = "GetJobState"
    /\ argi' = i
    /\ ret' = GetJobState(jobs[i])
    /\ UNCHANGED <<jobs, nodes, partitions, diag, shares>>

CallGetNodeStates ==
  \E i \in 1..Len(nodes) :
    /\ call' = "GetNodeStates"
    /\ argi' = i
    /\ ret' = GetNodeStates(nodes[i])
    /\ UNCHANGED <<jobs, nodes, partitions, diag, shares>>

NextClassify == CallGetJobState \/ CallGetNodeStates

SpecClassify == InitClassify /\ [][NextClassify]_vars

(***************************************************************************)
(* Properties of the classifiers.                                          *)
(***************************************************************************)
\* the JobState enumeration, by the name of each value
JobStateOfName ==
  ("pending" :> "JobStatePending") @@ ("running" :> "JobStateRunning") @@
  ("suspended" :> "JobStateSuspended") @@ ("cancelled" :> "JobStateCancelled") @@
  ("completing" :> "JobStateCompleting") @@ ("completed" :> "JobStateCompleted") @@
  ("configuring" :> "JobStateConfiguring") @@ ("failed" :> "JobStateFailed") @@
  ("timeout" :> "JobStateTimeout") @@ ("preempted" :> "JobStatePreempted") @@
  ("node_fail" :> "JobStateNodeFail") @@ ("out_of_memory" :> "JobStateOutOfMemory")

\* the NodeState enumeration, by the name of each value
NodeStateOfName ==
  ("alloc" :> "NodeStateAlloc") @@ ("comp" :> "NodeStateComp") @@
  ("down" :> "NodeStateDown") @@ ("drain" :> "NodeStateDrain") @@
  ("fail" :> "NodeStateFail") @@ ("err" :> "NodeStateErr") @@
  ("idle" :> "NodeStateIdle") @@ ("maint" :> "NodeStateMaint") @@
  ("mix" :> "NodeStateMix") @@ ("resv" :> "NodeStateResv") @@
  ("not_responding" :> "NodeStateNotResponding") @@
  ("invalid" :> "NodeStateInvalid") @@ ("invalid_reg" :> "NodeStateInvalidReg")

\* the job GetJobState was called on has a first raw state entry
JobCallWithFirstEntry ==
  /\ call = "GetJobState"
  /\ ~jobs[argi].JobState.null
  /\ Len(jobs[argi].JobState.elems) > 0

\* the node GetNodeStates was called on has a non-empty raw state sequence
NodeCallWithEntries ==
  /\ call = "GetNodeStates"
  /\ ~nodes[argi].State.null
  /\ Len(nodes[argi].State.elems) > 0

\* the rules of an ordered rule list that match a lower-cased token
Matching(rules, state) == {r \in 1..Len(rules) : MatchString(rules[r][1], state)}

Least(S) == CHOOSE m \in S : \A k \in S : m <= k

\* C1: GetJobState returns the enumeration value whose name the lower-cased
\* first raw entry starts with, and an error and no value when the first entry
\* starts with none of the twelve names; the entries after the first are not read.
C1_JobStateByFirstEntry ==
  JobCallWithFirstEntry =>
    LET first == ToLower(jobs[argi].JobState.elems[1])
        names == {n \in DOMAIN JobStateOfName : HasPrefix(first, n)}
    IN IF names = {}
       THEN ret.kind = "err" /\ ret.val = Nil
       ELSE \A n \in names : ret = Ok(Ptr(JobStateOfName[n]))

\* a mixed-case known token followed by a different second entry was classified
C1_Witness ==
  /\ JobCallWithFirstEntry
  /\ jobs[argi].JobState.elems = <<"Out_Of_Memory", "RUNNING">>
  /\ ret = Ok(Ptr("JobStateOutOfMemory"))

\* C2: GetNodeStates on a non-empty raw sequence returns a sequence of the same
\* length whose i-th element classifies the i-th raw entry, in input order
\* (["MIXED","DRAIN"] gives [Mix, Drain]); one unmatched entry makes the whole
\* call return an error and no sequence.
C2_NodeStatesElementwise ==
  NodeCallWithEntries =>
    LET elems == nodes[argi].State.elems
        m(i)  == Matching(nodeStateRules, ToLower(elems[i]))
    IN /\ IF \A i \in 1..Len(elems) : m(i) # {}
          THEN /\ ret.kind = "ok"
               /\ Len(Deref(ret.val)) = Len(elems)
               /\ \A i \in 1..Len(elems) :
                    Deref(ret.val)[i] = nodeStateRules[Least(m(i))][2]
          ELSE ret.kind = "err" /\ ret.val = Nil
       /\ elems = <<"MIXED", "DRAIN">> =>
            ret = Ok(Ptr(<<"NodeStateMix", "NodeStateDrain">>))

\* the two-state example was classified
C2_Witness ==
  /\ NodeCallWithEntries
  /\ nodes[argi].State.elems = <<"MIXED", "DRAIN">>
  /\ ret = Ok(Ptr(<<"NodeStateMix", "NodeStateDrain">>))

\* C3: in both classifiers no two rules match the same lower-cased token, and
\* the token carrying the name of an enumeration value is classified as that value.
C3_RulesMutuallyExclusive ==
  /\ JobCallWithFirstEntry =>
       LET first == ToLower(jobs[argi].JobState.elems[1])
       IN /\ Cardinality(Matching(jobStateRules, first)) <= 1
          /\ first \in DOMAIN JobStateOfName => ret = Ok(Ptr(JobStateOfName[first]))
  /\ NodeCallWithEntries =>
       \A i \in 1..Len(nodes[argi].State.elems) :
         LET state == ToLower(nodes[argi].State.elems[i])
         IN /\ Cardinality(Matching(nodeStateRules, state)) <= 1
            /\ (state \in DOMAIN NodeStateOfName /\ ret.kind = "ok") =>
                 Deref(ret.val)[i] = NodeStateOfName[state]

\* C4: an absent or empty raw state field makes GetJobState fail with "job
\* state not found" and GetNodeStates fail with "node state not found".
C4_EmptyOrAbsentNotFound ==
  /\ (call = "GetJobState" /\ Len(jobs[argi].JobState.elems) = 0) =>
       ret = Err("job state not found in job")
  /\ (call = "GetNodeStates" /\ Len(nodes[argi].State.elems) = 0) =>
       ret = Err("node state not found in node")

(***************************************************************************)
(* The resource-string extractors called on one node.                      *)
(***************************************************************************)
RECURSIVE Join(_, _)
Join(seq, sep) ==
  IF Len(seq) = 0 THEN ""
  ELSE IF Len(seq) = 1 THEN seq[1]
  ELSE seq[1] \o sep \o Join(Tail(seq), sep)

\* pieces of TRES strings: well-formed pairs, runs of pairs without a GPU,
\* GPU pairs with a good, a bad, a signed, an empty and a doubled value
TresFragments ==
  {"cpu=48,mem=1020522M,billing=48", "cpu=1,mem=1M,billing=1", "cpu=48",
   "gres/gpu=4", "gres/gpu=2", "gres/gpu=10", "gres/gpu=bad", "gres/gpu=",
   "gres/gpu=-1", "gres/gpu=4=8", "gres/gpu:a100=4", "xgres/gpu=7", "gres/gpu", ""}

TresStrings == {Join(f, ",") : f \in SeqsUpTo(TresFragments, MaxFragments)}

GPUNodes ==
  {Node(Slice(<<"IDLE">>), Ptr(8), Ptr(2), Ptr(t), Nil) : t \in TresStrings}
  \cup {Node(Slice(<<"IDLE">>), Ptr(8), Ptr(2), Nil, Ptr(t)) : t \in TresStrings}

InitGPU ==
  /\ jobs = <<>>
  /\ nodes \in {<<n>> : n \in GPUNodes}
  /\ partitions = <<>>
  /\ diag = NoDiag
  /\ shares = <<>>
  /\ call = "none"
  /\ argi = 0
  /\ ret = NoRet

CallGetNodeGPUTotal ==
  \E i \in 1..Len(nodes) :
    /\ call' = "GetNodeGPUTotal"
    /\ argi' = i
    /\ ret' = GetNodeGPUTotal(nodes[i])
    /\ UNCHANGED <<jobs, nodes, partitions, diag, shares>>

CallGetNodeGPUAllocated ==
  \E i \in 1..Len(nodes) :
    /\ call' = "GetNodeGPUAllocated"
    /\ argi' = i
    /\ ret' = GetNodeGPUAllocated(nodes[i])
    /\ UNCHANGED <<jobs, nodes, partitions, diag, shares>>

NextGPU == CallGetNodeGPUTotal \/ CallGetNodeGPUAllocated

SpecGPU == InitGPU /\ [][NextGPU]_vars

\* the resource string the last extraction read, as a pointer
ScannedTres ==
  IF call = "GetNodeGPUTotal" THEN nodes[argi].Tres
  ELSE IF call = "GetNodeGPUAllocated" THEN nodes[argi].TresUsed
  ELSE Nil

\* C5: the extraction returns the integer value of the first comma-separated
\* pair that holds the GPU tag, 0 and no error when no pair holds it, and an
\* error when that first pair has not exactly two '='-separated parts or its
\* value is no integer; the three examples of the specification come out as
\* 4, 0 and an error.
C5_FirstGPUPair ==
  ~IsNil(ScannedTres) =>
    LET tres  == Deref(ScannedTres)
        pairs == Split(tres, ",")
        gpu   == {i \in 1..Len(pairs) : Contains(pairs[i], "gres/gpu=")}
    IN /\ IF gpu = {} THEN ret = Ok(0)
          ELSE LET kv == Split(pairs[Least(gpu)], "=")
               IN IF Len(kv) = 2 /\ Atoi(kv[2]).ok
                  THEN ret = Ok(Atoi(kv[2]).n)
                  ELSE ret.kind = "err"
       /\ tres = "cpu=48,mem=1020522M,billing=48,gres/gpu=4" => ret = Ok(4)
       /\ tres = "cpu=1,mem=1M,billing=1" => ret = Ok(0)
       /\ tres = "cpu=48,gres/gpu=bad" => ret.kind = "err"
       /\ tres = "gres/gpu=10,gres/gpu=2" => ret = Ok(10)
       /\ tres = "gres/gpu=4=8,gres/gpu=2" => ret.kind = "err"

\* a later GPU pair did not rescue a malformed first one
C5_Witness ==
  /\ call = "GetNodeGPUAllocated"
  /\ nodes[argi].TresUsed = Ptr("gres/gpu=bad,gres/gpu=4")
  /\ ret.kind = "err"

(***************************************************************************)
(* The account and user tallies called on one jobs response.               *)
(***************************************************************************)
\* owners of a job: one of two accounts, each with its user
JobOwners == {<<Ptr("physics"), Ptr("alice")>>, <<Ptr("biology"), Ptr("bob")>>}

\* raw state fields of the tallied jobs: absent, empty, the three tallied
\* states, a state that is not tallied, and a flag no rule knows
TallyStates ==
  {NilSlice, Slice(<<>>), Slice(<<"PENDING">>), Slice(<<"RUNNING">>),
   Slice(<<"SUSPENDED">>), Slice(<<"COMPLETED">>), Slice(<<"DEADLINE">>)}

JobCpuCounts == {Nil, Ptr(2), Ptr(4)}

\* jobs of the two owners, and jobs that record neither account nor user
TallyJobs ==
  {Job(o[1], o[2], st, c) : o \in JobOwners, st \in TallyStates, c \in JobCpuCounts}
  \cup {Job(Nil, Nil, Slice(<<"RUNNING">>), Ptr(4)), Job(Nil, Nil, NilSlice, Nil)}

InitTally ==
  /\ jobs \in SeqsUpTo(TallyJobs, MaxJobs)
  /\ nodes = <<>>
  /\ partitions = <<>>
  /\ diag = NoDiag
  /\ shares = <<>>
  /\ call = "none"
  /\ argi = 0
  /\ ret = NoRet

CallParseAccountsMetrics ==
  /\ call' = "ParseAccountsMetrics"
  /\ argi' = 0
  /\ ret' = ParseAccountsMetrics(jobs)
  /\ UNCHANGED <<jobs, nodes, partitions, diag, shares>>

CallParseUsersMetrics ==
  /\ call' = "ParseUsersMetrics"
  /\ argi' = 0
  /\ ret' = ParseUsersMetrics(jobs)
  /\ UNCHANGED <<jobs, nodes, partitions, diag, shares>>

NextTally == CallParseAccountsMetrics \/ CallParseUsersMetrics

SpecTally == InitTally /\ [][NextTally]_vars

(***************************************************************************)
(* What a tally should hold, said without the loops.                       *)
(***************************************************************************)
RECURSIVE SumSeq(_)
SumSeq(q) == IF Len(q) = 0 THEN 0 ELSE Head(q) + SumSeq(Tail(q))

\* the accessors return an error for the job (its state or CPU count is not resolved)
StateOrCpusFails(j) == GetJobState(j).kind = "err" \/ GetJobCPUs(j).kind = "err"

\* classifying the job's state crashes
StateCrashes(j) == GetJobState(j).kind = "panic"

\* the job resolves: state and CPU count are both there
Resolves(j) == GetJobState(j).kind = "ok" /\ GetJobCPUs(j).kind = "ok"

\* the jobs of the response that resolve, belong to key under field and are in state st
JobsOf(field, key, st) ==
  {i \in 1..Len(jobs) : /\ jobs[i][field] = Ptr(key)
                        /\ Resolves(jobs[i])
                        /\ GetJobState(jobs[i]).val = Ptr(st)}

CpusOf(S) == SumSeq([i \in 1..Len(jobs) |-> IF i \in S THEN Deref(jobs[i].Cpus) ELSE 0])

\* the record a key should hold
ExpectedTally(field, key) ==
  [pending      |-> Cardinality(JobsOf(field, key, "JobStatePending")),
   pending_cpus |-> CpusOf(JobsOf(field, key, "JobStatePending")),
   running      |-> Cardinality(JobsOf(field, key, "JobStateRunning")),
   running_cpus |-> CpusOf(JobsOf(field, key, "JobStateRunning")),
   suspended    |-> Cardinality(JobsOf(field, key, "JobStateSuspended"))]

\* the job list with record i removed
Without(q, i) == SubSeq(q, 1, i - 1) \o SubSeq(q, i + 1, Len(q))

\* C9 as stated: ParseAccountsMetrics never returns an error, and a job whose
\* account, state or CPU count is not resolved is dropped: the returned mapping
\* equals the one computed from the job list without that record.
C9_UnresolvedJobDropped ==
  call = "ParseAccountsMetrics" =>
    /\ ret.kind # "err"
    /\ ret.kind = "ok" =>
         \A i \in 1..Len(jobs) :
           (IsNil(jobs[i].Account) \/ StateOrCpusFails(jobs[i])) =>
             ret = ParseAccountsMetrics(Without(jobs, i))

\* C9 amended: ParseAccountsMetrics never returns an error; a job without an
\* account is dropped; a job with an account whose state or CPU count is not
\* resolved adds to no counter but its account is a key of the result all the
\* same, so the keys are the accounts of all jobs that name one and each
\* counter tallies the jobs that resolve.  The call crashes exactly when a job
\* that names an account has a present but empty state field.
C9_UnresolvedJobKeepsKey ==
  call = "ParseAccountsMetrics" =>
    LET named == {i \in 1..Len(jobs) : ~IsNil(jobs[i].Account)}
    IN /\ ret.kind # "err"
       /\ ret.kind = "panic" <=> \E i \in named : StateCrashes(jobs[i])
       /\ ret.kind = "ok" =>
            LET m == Deref(ret.val)
            IN /\ DOMAIN m = {Deref(jobs[i].Account) : i \in named}
               /\ \A a \in DOMAIN m : m[a] = ExpectedTally("Account", a)

\* an account whose only job has no state is a key with zeroed counters, next
\* to an account with a tallied job
C9_Witness ==
  /\ call = "ParseAccountsMetrics"
  /\ ret.kind = "ok"
  /\ \E i, k \in 1..Len(jobs) :
       /\ jobs[i].Account = Ptr("biology") /\ jobs[i].JobState = NilSlice
       /\ jobs[k].Account = Ptr("physics") /\ Resolves(jobs[k])
  /\ DOMAIN Deref(ret.val) = {"biology", "physics"}
  /\ Deref(ret.val)["biology"] = NewJobMetrics
  /\ Deref(ret.val)["physics"].running_cpus = 4

\* the first job of the response that ParseUsersMetrics cannot get past; 0 when
\* every job resolves
FirstStop ==
  LET stops == {i \in 1..Len(jobs) : IsNil(jobs[i].UserName) \/ ~Resolves(jobs[i])}
  IN IF stops = {} THEN 0 ELSE Least(stops)

\* C10 as stated: ParseUsersMetrics skips a job that does not resolve and does
\* not abort with an error.
C10_UsersSkipAndContinue ==
  call = "ParseUsersMetrics" => ret.kind # "err"

\* C10 amended: ParseUsersMetrics is fail-fast.  When the first job it cannot
\* get past has a user name and a state or CPU count that is not resolved, the
\* call returns an error and no mapping, and no later job is tallied; when that
\* job has no user name or a present but empty state field, the call crashes;
\* when every job resolves, the mapping tallies every job under its user.
C10_UsersFailFast ==
  call = "ParseUsersMetrics" =>
    IF FirstStop = 0
    THEN /\ ret.kind = "ok"
         /\ DOMAIN Deref(ret.val) = {Deref(jobs[i].UserName) : i \in 1..Len(jobs)}
         /\ \A u \in DOMAIN Deref(ret.val) :
              Deref(ret.val)[u] = ExpectedTally("UserName", u)
    ELSE LET j == jobs[FirstStop]
         IN IF IsNil(j.UserName) \/ StateCrashes(j)
            THEN ret.kind = "panic"
            ELSE ret.kind = "err" /\ ret.val = Nil

\* a job without a state after a job that resolves made the call fail
C10_Witness ==
  /\ call = "ParseUsersMetrics"
  /\ Len(jobs) = 2
  /\ Resolves(jobs[1]) /\ ~IsNil(jobs[1].UserName)
  /\ ~IsNil(jobs[2].UserName) /\ jobs[2].JobState = NilSlice
  /\ ret.kind = "err" /\ ret.val = Nil

(***************************************************************************)
(* The cluster CPU tally called on one nodes and one jobs response.        *)
(***************************************************************************)
CPUJobs ==
  {Job(Ptr("physics"), Ptr("alice"), x[1], x[2]) :
     x \in {<<Slice(<<"RUNNING">>), Ptr(4)>>,
            <<Slice(<<"PENDING">>), Ptr(2)>>, <<NilSlice, Ptr(4)>>,
            <<Slice(<<>>), Ptr(4)>>, <<Slice(<<"RUNNING">>), Nil>>}}

\* nodes as <<raw states, CPU count, idle CPU count>>
CPUNodes ==
  {Node(x[1], x[2], x[3], Ptr(""), Ptr("")) :
     x \in {<<Slice(<<"IDLE">>), Ptr(8), Ptr(2)>>,
            <<Slice(<<"DOWN">>), Ptr(8), Ptr(0)>>,
            <<Slice(<<"MIXED", "DRAIN">>), Ptr(16), Ptr(4)>>,
            <<Slice(<<"MIXED", "IDLE">>), Ptr(8), Ptr(2)>>,
            <<Slice(<<"IDLE">>), Ptr(1), Ptr(1)>>,
            <<Slice(<<"PLANNED">>), Ptr(8), Ptr(2)>>,
            <<Slice(<<"PLANNED">>), Ptr(1), Ptr(1)>>,
            <<Slice(<<>>), Ptr(8), Ptr(0)>>,
            <<Slice(<<"IDLE">>), Nil, Ptr(2)>>,
            <<Slice(<<"ALLOCATED">>), Ptr(8), Nil>>}}

InitCPUs ==
  /\ nodes \in SeqsUpTo(CPUNodes, MaxNodes)
  /\ jobs \in SeqsUpTo(CPUJobs, MaxJobs)
  /\ partitions = <<>>
  /\ diag = NoDiag
  /\ shares = <<>>
  /\ call = "none"
  /\ argi = 0
  /\ ret = NoRet

CallParseCPUsMetrics ==
  /\ call' = "ParseCPUsMetrics"
  /\ argi' = 0
  /\ ret' = ParseCPUsMetrics(nodes, jobs)
  /\ UNCHANGED <<jobs, nodes, partitions, diag, shares>>

NextCPUs == CallParseCPUsMetrics

SpecCPUs == InitCPUs /\ [][NextCPUs]_vars

\* the CPU counts of the jobs that resolve and are Running
RunningCpus ==
  SumSeq([i \in 1..Len(jobs) |->
            IF Resolves(jobs[i]) /\ GetJobState(jobs[i]).val = Ptr("JobStateRunning")
            THEN Deref(jobs[i].Cpus) ELSE 0])

\* the CPU counts of the nodes that do not report exactly one CPU
CountedCpus ==
  SumSeq([i \in 1..Len(nodes) |->
            IF ~IsNil(nodes[i].Cpus) /\ Deref(nodes[i].Cpus) # 1
            THEN Deref(nodes[i].Cpus) ELSE 0])

\* the classified states of the node hold Mix, Alloc or Idle
HoldsIdleState(n) ==
  /\ GetNodeStates(n).kind = "ok"
  /\ \E k \in 1..Len(Deref(GetNodeStates(n).val)) :
       Deref(GetNodeStates(n).val)[k] \in {"NodeStateMix", "NodeStateAlloc", "NodeStateIdle"}

\* every job and every node of the snapshot resolves
AllResolve ==
  /\ \A i \in 1..Len(jobs) : Resolves(jobs[i])
  /\ \A i \in 1..Len(nodes) :
       /\ ~IsNil(nodes[i].Cpus)
       /\ ~IsNil(nodes[i].AllocIdleCpus)
       /\ GetNodeStates(nodes[i]).kind = "ok"

\* C6: when every record resolves, alloc is the sum of the CPU counts of the
\* Running jobs, total the sum of the CPU counts of the nodes that do not
\* report exactly one CPU, and other = total - idle - alloc, not clamped; one
\* running 4-CPU job and two 8-CPU nodes, one Idle with 2 idle CPUs, give
\* alloc 4, total 16, idle 2, other 10.
C6_CPUTotals ==
  (call = "ParseCPUsMetrics" /\ AllResolve) =>
    /\ ret.kind = "ok"
    /\ Deref(ret.val).alloc = RunningCpus
    /\ Deref(ret.val).total = CountedCpus
    /\ Deref(ret.val).other = CountedCpus - Deref(ret.val).idle - RunningCpus
    /\ ( /\ jobs = <<Job(Ptr("physics"), Ptr("alice"), Slice(<<"RUNNING">>), Ptr(4))>>
         /\ nodes = <<Node(Slice(<<"IDLE">>), Ptr(8), Ptr(2), Ptr(""), Ptr("")),
                      Node(Slice(<<"DOWN">>), Ptr(8), Ptr(0), Ptr(""), Ptr(""))>> )
       => ret = Ok(Ptr([alloc |-> 4, idle |-> 2, other |-> 10, total |-> 16]))

\* the example of the specification was tallied
C6_Witness ==
  /\ call = "ParseCPUsMetrics"
  /\ Len(jobs) = 1 /\ GetJobState(jobs[1]).val = Ptr("JobStateRunning")
  /\ Len(nodes) = 2 /\ nodes[1].Cpus = Ptr(8) /\ nodes[2].Cpus = Ptr(8)
  /\ ret = Ok(Ptr([alloc |-> 4, idle |-> 2, other |-> 10, total |-> 16]))

\* C7: idle is the sum, over the nodes whose classified states hold Mix, Alloc
\* or Idle, of the node's idle-CPU field, each such node counted once however
\* many of its states qualify.  (Stated for snapshots in which no node reports
\* exactly one CPU, the nodes the tally passes over altogether.)
C7_IdleOncePerNode ==
  ( /\ call = "ParseCPUsMetrics"
    /\ ret.kind = "ok"
    /\ \A i \in 1..Len(nodes) : nodes[i].Cpus # Ptr(1) )
  => Deref(ret.val).idle =
       SumSeq([i \in 1..Len(nodes) |->
                 IF HoldsIdleState(nodes[i]) THEN Deref(nodes[i].AllocIdleCpus) ELSE 0])

\* the node stops the walk over the nodes with an error
NodeFails(n) ==
  ~IsNil(n.Cpus) /\ Deref(n.Cpus) # 1 /\ GetNodeStates(n).kind = "err"

\* the node crashes the walk over the nodes
NodeCrashes(n) ==
  \/ IsNil(n.Cpus)
  \/ Deref(n.Cpus) # 1 /\ HoldsIdleState(n) /\ IsNil(n.AllocIdleCpus)

\* the first node the walk cannot get past; 0 when it gets past all
FirstNodeStop ==
  LET stops == {i \in 1..Len(nodes) : NodeFails(nodes[i]) \/ NodeCrashes(nodes[i])}
  IN IF stops = {} THEN 0 ELSE Least(stops)

\* C8 as stated: a job whose state or CPU count is not resolved, or a node
\* whose state is not classified, makes ParseCPUsMetrics return an error and no
\* metrics.
C8_FailFastOnAnyRecord ==
  ( /\ call = "ParseCPUsMetrics"
    /\ \/ \E i \in 1..Len(jobs) : StateOrCpusFails(jobs[i])
       \/ \E i \in 1..Len(nodes) : GetNodeStates(nodes[i]).kind = "err" )
  => ret.kind = "err" /\ ret.val = Nil

\* C8 amended: ParseCPUsMetrics is fail-fast for node records only.  A job
\* whose state or CPU count is not resolved is skipped, adds nothing to alloc
\* and never makes the call fail.  The call returns an error and no metrics
\* exactly when the first node the walk cannot get past reports a CPU count
\* other than 1 and has an absent or unclassifiable state; a node reporting one
\* CPU is passed over before its state is read.  (The call crashes on a job
\* with a present but empty state field and on a node without a CPU count or,
\* when it is counted as idle, without an idle count.)
C8_FailFastOnNodesOnly ==
  call = "ParseCPUsMetrics" =>
    IF \E i \in 1..Len(jobs) : StateCrashes(jobs[i]) THEN ret.kind = "panic"
    ELSE IF FirstNodeStop = 0
    THEN ret.kind = "ok" /\ Deref(ret.val).alloc = RunningCpus
    ELSE IF NodeCrashes(nodes[FirstNodeStop]) THEN ret.kind = "panic"
    ELSE ret.kind = "err" /\ ret.val = Nil

\* a job without a state was skipped and the running job next to it counted,
\* and a one-CPU node with an unknown state was passed over
C8_Witness ==
  /\ call = "ParseCPUsMetrics"
  /\ \E i \in 1..Len(jobs) : jobs[i].JobState = NilSlice
  /\ \E i \in 1..Len(nodes) :
       nodes[i].Cpus = Ptr(1) /\ GetNodeStates(nodes[i]).kind = "err"
  /\ ret.kind = "ok"
  /\ Deref(ret.val).alloc = 4

(***************************************************************************)
(* Queue tally.                                                            *)
(***************************************************************************)
\* a job record with the dependency field (a pointer to a string) next to the
\* fields of Job
QueueJob(state, dependency) ==
  Job(Ptr("physics"), Ptr("alice"), state, Ptr(4)) @@ [Dependency |-> dependency]

NewQueueMetrics ==
  [pending |-> 0, pending_dep |-> 0, running |-> 0, suspended |-> 0,
   cancelled |-> 0, completing |-> 0, completed |-> 0, configuring |-> 0,
   failed |-> 0, timeout |-> 0, preempted |-> 0, node_fail |-> 0]

\* the cases of the switch of ParseQueueMetrics other than Pending: the counter
\* each job state increments
queueCounterOf ==
  ("JobStateRunning" :> "running") @@ ("JobStateSuspended" :> "suspended") @@
  ("JobStateCancelled" :> "cancelled") @@ ("JobStateCompleting" :> "completing") @@
  ("JobStateCompleted" :> "completed") @@ ("JobStateConfiguring" :> "configuring") @@
  ("JobStateFailed" :> "failed") @@ ("JobStateTimeout" :> "timeout") @@
  ("JobStatePreempted" :> "preempted") @@ ("JobStateNodeFail" :> "node_fail")

\* the range loop of ParseQueueMetrics from job i on
RECURSIVE queueLoop(_, _, _)
queueLoop(js, i, qm) ==
  IF i > Len(js) THEN Ok(Ptr(qm))
  ELSE LET j == js[i]
           jobState == GetJobState(j)
       IN IF jobState.kind = "panic" THEN Panic
          ELSE IF jobState.kind = "err"
          THEN Err("failed to get job state: " \o jobState.msg)
          ELSE LET st == Deref(jobState.val) IN
               IF st = "JobStatePending"
               THEN IF IsNil(j.Dependency) THEN Panic
                    ELSE IF Deref(j.Dependency) # ""
                    THEN queueLoop(js, i + 1, [qm EXCEPT !.pending_dep = @ + 1])
                    ELSE queueLoop(js, i + 1, [qm EXCEPT !.pending = @ + 1])
               ELSE IF st \in DOMAIN queueCounterOf
               THEN queueLoop(js, i + 1, [qm EXCEPT ![queueCounterOf[st]] = @ + 1])
               ELSE queueLoop(js, i + 1, qm)

ParseQueueMetrics(jobsResp) == queueLoop(jobsResp, 1, NewQueueMetrics)

(***************************************************************************)
(* The queue tally called on one jobs response.                            *)
(***************************************************************************)
\* pending jobs with an absent, an empty and a recorded dependency; a job of
\* every other state, of no state and of an unknown state with an empty
\* dependency; a running job with an absent dependency
QueueJobs ==
  {QueueJob(Slice(<<"PENDING">>), d) : d \in {Nil, Ptr(""), Ptr("afterok:17")}}
  \cup {QueueJob(Slice(<<t>>), Ptr("")) :
          t \in {"RUNNING", "SUSPENDED", "CANCELLED", "COMPLETING", "COMPLETED",
                 "CONFIGURING", "FAILED", "TIMEOUT", "PREEMPTED", "NODE_FAIL",
                 "OUT_OF_MEMORY", "DEADLINE"}}
  \cup {QueueJob(NilSlice, Ptr("")), QueueJob(Slice(<<"RUNNING">>), Nil)}

InitQueue ==
  /\ jobs \in SeqsUpTo(QueueJobs, MaxJobs)
  /\ nodes = <<>>
  /\ partitions = <<>>
  /\ diag = NoDiag
  /\ shares = <<>>
  /\ call = "none"
  /\ argi = 0
  /\ ret = NoRet

CallParseQueueMetrics ==
  /\ call' = "ParseQueueMetrics"
  /\ argi' = 0
  /\ ret' = ParseQueueMetrics(jobs)
  /\ UNCHANGED <<jobs, nodes, partitions, diag, shares>>

NextQueue == CallParseQueueMetrics

SpecQueue == InitQueue /\ [][NextQueue]_vars

\* the names of the counters of the queue record
QueueCounters == DOMAIN NewQueueMetrics

RECURSIVE SumOver(_, _)
SumOver(f, S) ==
  IF S = {} THEN 0
  ELSE LET x == CHOOSE y \in S : TRUE IN f[x] + SumOver(f, S \ {x})

\* the jobs of the response classified as st
JobsInState(st) == {i \in 1..Len(jobs) : GetJobState(jobs[i]).val = Ptr(st)}

\* C11: when every job classifies, each job increments exactly one counter of
\* the queue record, whichever of the twelve job states it is in, so the
\* counters add up to the number of jobs.
C11_OneCounterPerJob ==
  (call = "ParseQueueMetrics" /\ ret.kind = "ok") =>
    SumOver(Deref(ret.val), QueueCounters) = Len(jobs)

\* C12: a Pending job adds to pending_dep when its dependency field is a
\* non-empty string and to pending when the field is absent or the empty
\* string, and the pass does not fail on it.
C12_PendingSplitByDependency ==
  ( /\ call = "ParseQueueMetrics"
    /\ \A i \in 1..Len(jobs) : GetJobState(jobs[i]).kind = "ok" )
  => /\ ret.kind = "ok"
     /\ Deref(ret.val).pending_dep =
          Cardinality({i \in JobsInState("JobStatePending") :
                         ~IsNil(jobs[i].Dependency) /\ jobs[i].Dependency # Ptr("")})
     /\ Deref(ret.val).pending =
          Cardinality({i \in JobsInState("JobStatePending") :
                         IsNil(jobs[i].Dependency) \/ jobs[i].Dependency = Ptr("")})

(***************************************************************************)
(* Node-state tally.                                                       *)
(***************************************************************************)
NewNodesMetrics ==
  [alloc |-> 0, comp |-> 0, down |-> 0, drain |-> 0, err |-> 0,
   fail |-> 0, idle |-> 0, maint |-> 0, mix |-> 0, resv |-> 0]

\* the cases of the switch of ParseNodesMetrics: the counter each node state
\* increments
nodesCounterOf ==
  ("NodeStateAlloc" :> "alloc") @@ ("NodeStateComp" :> "comp") @@
  ("NodeStateDown" :> "down") @@ ("NodeStateDrain" :> "drain") @@
  ("NodeStateErr" :> "err") @@ ("NodeStateFail" :> "fail") @@
  ("NodeStateIdle" :> "idle") @@ ("NodeStateMaint" :> "maint") @@
  ("NodeStateMix" :> "mix") @@ ("NodeStateResv" :> "resv")

\* the inner loop counting a node under its first state only
RECURSIVE nodesStatesLoopFirstOnly(_, _, _)
nodesStatesLoopFirstOnly(nodeStates, k, nm) ==
  IF k > Len(nodeStates) \/ k > 1 THEN nm
  ELSE IF nodeStates[k] \in DOMAIN nodesCounterOf
  THEN nodesStatesLoopFirstOnly(nodeStates, k + 1,
         [nm EXCEPT ![nodesCounterOf[nodeStates[k]]] = @ + 1])
  ELSE nodesStatesLoopFirstOnly(nodeStates, k + 1, nm)

\* the inner range loop of ParseNodesMetrics over one node's classified states
\* from state k on
RECURSIVE nodesStatesLoop(_, _, _)
nodesStatesLoop(nodeStates, k, nm) ==
  IF k > Len(nodeStates) THEN nm
  ELSE IF nodeStates[k] \in DOMAIN nodesCounterOf
  THEN nodesStatesLoop(nodeStates, k + 1,
         [nm EXCEPT ![nodesCounterOf[nodeStates[k]]] = @ + 1])
  ELSE nodesStatesLoop(nodeStates, k + 1, nm)

\* the range loop of ParseNodesMetrics from node i on
RECURSIVE nodesLoop(_, _, _)
nodesLoop(ns, i, nm) ==
  IF i > Len(ns) THEN Ok(Ptr(nm))
  ELSE LET nodeStates == GetNodeStates(ns[i]) IN
       IF nodeStates.kind = "err"
       THEN Err("failed to get node state for nodes metrics: " \o nodeStates.msg)
       ELSE nodesLoop(ns, i + 1, nodesStatesLoop(Deref(nodeStates.val), 1, nm))

ParseNodesMetrics(nodesResp) == nodesLoop(nodesResp, 1, NewNodesMetrics)

(***************************************************************************)
(* The node-state tally called on one nodes response.                      *)
(***************************************************************************)
\* raw state fields of the tallied nodes: every known token alone, nodes in
\* two states, a node in no state, and nodes whose state is absent or unknown
TallyNodeStates ==
  {Slice(<<t>>) : t \in {"ALLOCATED", "COMPLETING", "DOWN", "DRAIN", "FAIL", "ERROR",
                         "IDLE", "MAINTENANCE", "MIXED", "RESERVED", "NOT_RESPONDING",
                         "INVALID", "INVALID_REG", "PLANNED"}}
  \cup {Slice(<<"MIXED", "DRAIN">>), Slice(<<"DOWN", "NOT_RESPONDING">>),
        Slice(<<"DRAIN", "DRAIN">>), Slice(<<>>), NilSlice}

TallyNodes == {Node(st, Ptr(8), Ptr(2), Ptr(""), Ptr("")) : st \in TallyNodeStates}

InitNodes ==
  /\ jobs = <<>>
  /\ nodes \in SeqsUpTo(TallyNodes, MaxNodes)
  /\ partitions = <<>>
  /\ diag = NoDiag
  /\ shares = <<>>
  /\ call = "none"
  /\ argi = 0
  /\ ret = NoRet

CallParseNodesMetrics ==
  /\ call' = "ParseNodesMetrics"
  /\ argi' = 0
  /\ ret' = ParseNodesMetrics(nodes)
  /\ UNCHANGED <<jobs, nodes, partitions, diag, shares>>

NextNodes == CallParseNodesMetrics

SpecNodes == InitNodes /\ [][NextNodes]_vars

\* the node state each of the ten counters stands for
StateOfNodesCounter ==
  [alloc |-> "NodeStateAlloc", comp |-> "NodeStateComp", down |-> "NodeStateDown",
   drain |-> "NodeStateDrain", err |-> "NodeStateErr", fail |-> "NodeStateFail",
   idle |-> "NodeStateIdle", maint |-> "NodeStateMaint", mix |-> "NodeStateMix",
   resv |-> "NodeStateResv"]

\* how often a state occurs in the classified state sequences of all nodes
Occurrences(st) ==
  SumSeq([i \in 1..Len(nodes) |->
            LET cs == Deref(GetNodeStates(nodes[i]).val)
            IN Cardinality({k \in 1..Len(cs) : cs[k] = st})])

\* C13: each of the ten counters is the number of occurrences of its state in
\* the classified state sequences of all nodes, a node counting once for every
\* state it holds (["MIXED","DRAIN"] adds one to mix and one to drain); the
\* states without a counter change nothing and cause no error.
C13_CountersAreOccurrences ==
  ( /\ call = "ParseNodesMetrics"
    /\ \A i \in 1..Len(nodes) : GetNodeStates(nodes[i]).kind = "ok" )
  => /\ ret.kind = "ok"
     /\ DOMAIN Deref(ret.val) = DOMAIN StateOfNodesCounter
     /\ \A c \in DOMAIN StateOfNodesCounter :
          Deref(ret.val)[c] = Occurrences(StateOfNodesCounter[c])
     /\ (Len(nodes) = 1 /\ nodes[1].State.elems = <<"MIXED", "DRAIN">>) =>
          Deref(ret.val) = [NewNodesMetrics EXCEPT !.mix = 1, !.drain = 1]

\* a node in two counted states next to a node in a state without a counter
C13_Witness ==
  /\ call = "ParseNodesMetrics"
  /\ Len(nodes) = 2
  /\ nodes[1].State.elems = <<"MIXED", "DRAIN">>
  /\ nodes[2].State.elems = <<"NOT_RESPONDING">>
  /\ ret = Ok(Ptr([NewNodesMetrics EXCEPT !.mix = 1, !.drain = 1]))

(***************************************************************************)
(* Partition metrics.                                                      *)
(***************************************************************************)
\* Name and Cpus.Total are pointers
Partition(name, total) == [Name |-> name, Cpus |-> [Total |-> total]]

\* a node with the fields the partition pass reads: Name and AllocCpus are
\* pointers, Partitions is a slice
PartitionNode(name, parts, alloc, idle) ==
  Node(Slice(<<"IDLE">>), Ptr(8), idle, Ptr(""), Ptr(""))
    @@ [Name |-> name, Partitions |-> parts, AllocCpus |-> alloc]

\* a job with its partition field, a pointer
PartitionJob(state, partition) ==
  Job(Ptr("physics"), Ptr("alice"), state, Ptr(4)) @@ [Partition |-> partition]

GetJobPartitionName(job) ==
  IF IsNil(job.Partition) THEN Err("partition name not found in job")
  ELSE Ok(job.Partition)

GetNodeName(node) ==
  IF IsNil(node.Name) THEN Err("node name not found in node information")
  ELSE Ok(node.Name)

GetPartitionName(partition) ==
  IF IsNil(partition.Name) THEN Err("failed to find name in partition")
  ELSE Ok(partition.Name)

GetPartitionTotalCPUs(partition) ==
  IF IsNil(partition.Cpus.Total) THEN Err("failed to find total cpus in partition")
  ELSE Ok(Ptr(Deref(partition.Cpus.Total)))

\* a nil list is returned as an empty one
GetNodePartitions(node) ==
  IF node.Partitions.null THEN <<>> ELSE node.Partitions.elems

GetNodeAllocCPUs(node) == IF IsNil(node.AllocCpus) THEN 0 ELSE Deref(node.AllocCpus)

GetNodeIdleCPUs(node) ==
  IF IsNil(node.AllocIdleCpus) THEN 0 ELSE Deref(node.AllocIdleCpus)

NewPartitionsMetrics ==
  [cpus_allocated |-> 0, cpus_idle |-> 0, cpus_other |-> 0, cpus_total |-> 0,
   jobs_pending |-> 0]

\* the map with the key present: the "if !exists" blocks of ParsePartitionsMetrics
withPartition(pm, name) ==
  IF name \in DOMAIN pm THEN pm ELSE pm @@ (name :> NewPartitionsMetrics)

\* the first loop of ParsePartitionsMetrics, from partition i on
RECURSIVE partitionTotalsLoop(_, _, _)
partitionTotalsLoop(ps, i, pm) ==
  IF i > Len(ps) THEN Ok(Ptr(pm))
  ELSE LET partitionName == GetPartitionName(ps[i]) IN
       IF partitionName.kind = "err"
       THEN Err("failed to get partition name for partition metrics: "
                  \o partitionName.msg)
       ELSE LET name == Deref(partitionName.val)
                total == GetPartitionTotalCPUs(ps[i])
            IN IF total.kind = "err"
               THEN Err("failed to collect cpu total for partition metrics: "
                          \o total.msg)
               ELSE partitionTotalsLoop(ps, i + 1,
                      [withPartition(pm, name) EXCEPT
                         ![name].cpus_total = Deref(total.val)])

\* the second loop, from node i on: the node names with their partition lists
RECURSIVE nodePartitionsLoop(_, _, _)
nodePartitionsLoop(ns, i, nodePartitions) ==
  IF i > Len(ns) THEN Ok(Ptr(nodePartitions))
  ELSE LET nodeName == GetNodeName(ns[i]) IN
       IF nodeName.kind = "err"
       THEN Err("failed to get node name for partition metrics: " \o nodeName.msg)
       ELSE LET name == Deref(nodeName.val)
                rest == [k \in DOMAIN nodePartitions \ {name} |-> nodePartitions[k]]
            IN nodePartitionsLoop(ns, i + 1, rest @@ (name :> GetNodePartitions(ns[i])))

\* the inner loop adding a node to the first partition of its list only
RECURSIVE nodeMembershipLoopFirstOnly(_, _, _, _, _)
nodeMembershipLoopFirstOnly(names, k, alloc_cpus, idle_cpus, pm) ==
  IF k > Len(names) \/ k > 1 THEN pm
  ELSE nodeMembershipLoopFirstOnly(names, k + 1, alloc_cpus, idle_cpus,
         [withPartition(pm, names[k]) EXCEPT
            ![names[k]].cpus_allocated = @ + alloc_cpus,
            ![names[k]].cpus_idle = @ + idle_cpus])

\* the inner loop of the third loop: one node's CPUs added to every partition
\* of its list, from name k on
RECURSIVE nodeMembershipLoop(_, _, _, _, _)
nodeMembershipLoop(names, k, alloc_cpus, idle_cpus, pm) ==
  IF k > Len(names) THEN pm
  ELSE nodeMembershipLoop(names, k + 1, alloc_cpus, idle_cpus,
         [withPartition(pm, names[k]) EXCEPT
            ![names[k]].cpus_allocated = @ + alloc_cpus,
            ![names[k]].cpus_idle = @ + idle_cpus])

\* the third loop, from node i on
RECURSIVE partitionNodesLoop(_, _, _)
partitionNodesLoop(ns, i, pm) ==
  IF i > Len(ns) THEN pm
  ELSE partitionNodesLoop(ns, i + 1,
         nodeMembershipLoop(GetNodePartitions(ns[i]), 1,
                            GetNodeAllocCPUs(ns[i]), GetNodeIdleCPUs(ns[i]), pm))

\* the orders in which a range over a map may visit its keys: the runtime
\* fixes none
RangeOrders(pm) ==
  {order \in [1..Cardinality(DOMAIN pm) -> DOMAIN pm] :
     \A a, b \in 1..Cardinality(DOMAIN pm) : a # b => order[a] # order[b]}

\* the loop deriving cpus_other with a remainder that also carries the place
\* of the key in the visit
RECURSIVE deriveLoopByPlace(_, _, _)
deriveLoopByPlace(order, k, pm) ==
  IF k > Len(order) THEN pm
  ELSE LET i == order[k]
           p == pm[i]
       IN deriveLoopByPlace(order, k + 1,
            [pm EXCEPT ![i].cpus_other = p.cpus_total - p.cpus_allocated - p.cpus_idle - (k - 1)])

\* the loop deriving cpus_other, a range over the map that visits the keys in
\* the given order, from the k-th visit on
RECURSIVE deriveLoop(_, _, _)
deriveLoop(order, k, pm) ==
  IF k > Len(order) THEN pm
  ELSE LET i == order[k]
           p == pm[i]
       IN deriveLoop(order, k + 1,
            [pm EXCEPT ![i].cpus_other = p.cpus_total - p.cpus_allocated - p.cpus_idle])

\* the inner loop counting a job under the first name of its field only
RECURSIVE pnamesLoopFirstOnly(_, _, _)
pnamesLoopFirstOnly(pnames, k, pm) ==
  IF k > Len(pnames) \/ k > 1 THEN pm
  ELSE pnamesLoopFirstOnly(pnames, k + 1,
         [withPartition(pm, pnames[k]) EXCEPT ![pnames[k]].jobs_pending = @ + 1])

\* the inner loop of the last loop: one job counted under every name of its
\* partition field, from name k on
RECURSIVE pnamesLoop(_, _, _)
pnamesLoop(pnames, k, pm) ==
  IF k > Len(pnames) THEN pm
  ELSE pnamesLoop(pnames, k + 1,
         [withPartition(pm, pnames[k]) EXCEPT ![pnames[k]].jobs_pending = @ + 1])

\* the last loop, from job i on
RECURSIVE partitionJobsLoop(_, _, _)
partitionJobsLoop(js, i, pm) ==
  IF i > Len(js) THEN Ok(Ptr(pm))
  ELSE LET pname == GetJobPartitionName(js[i]) IN
       IF pname.kind = "err"
       THEN Err("failed to get job partition name for partition metrics: "
                  \o pname.msg)
       ELSE partitionJobsLoop(js, i + 1,
              pnamesLoop(Split(Deref(pname.val), ","), 1, pm))

\* the first three loops of ParsePartitionsMetrics: the map before cpus_other
\* is derived, or the error that ends the call
partitionFanOut(partitionResp, nodesResp) ==
  LET totals == partitionTotalsLoop(partitionResp, 1, <<>>) IN
  IF totals.kind = "err" THEN totals
  ELSE LET nodePartitions == nodePartitionsLoop(nodesResp, 1, <<>>) IN
       IF nodePartitions.kind = "err" THEN nodePartitions
       ELSE Ok(Ptr(partitionNodesLoop(nodesResp, 1, Deref(totals.val))))

\* the orders in which one call may visit the keys when it derives cpus_other
PartitionRangeOrders(partitionResp, nodesResp) ==
  LET fanOut == partitionFanOut(partitionResp, nodesResp)
  IN IF fanOut.kind = "err" THEN {<<>>} ELSE RangeOrders(Deref(fanOut.val))

\* ParsePartitionsMetrics when the range deriving cpus_other visits the keys
\* in the given order
ParsePartitionsMetrics(partitionResp, jobsResp, nodesResp, order) ==
  LET fanOut == partitionFanOut(partitionResp, nodesResp)
  IN IF fanOut.kind = "err" THEN fanOut
     ELSE partitionJobsLoop(jobsResp, 1, deriveLoop(order, 1, Deref(fanOut.val)))

(***************************************************************************)
(* The partition pass called on one snapshot of the three responses.       *)
(***************************************************************************)
\* the longest partitions response
MaxPartitions == 2

\* partitions of the partitions response: A reported twice with different
\* totals, B, a partition without a name and one without a CPU total
PartitionRecords ==
  {Partition(Ptr("A"), Ptr(10)), Partition(Ptr("A"), Ptr(6)), Partition(Ptr("B"), Ptr(4)),
   Partition(Nil, Ptr(10)), Partition(Ptr("A"), Nil)}

\* nodes of the nodes response: members of A, a member of A and B, a member of
\* a partition C that no partitions response names, a node without a partition
\* list, one without a name and one without CPU counts.  A partition list names
\* a partition once.
PartitionNodes ==
  {PartitionNode(Ptr("n1"), Slice(<<"A">>), Ptr(4), Ptr(2)),
   PartitionNode(Ptr("n2"), Slice(<<"A">>), Ptr(3), Ptr(1)),
   PartitionNode(Ptr("n3"), Slice(<<"A", "B">>), Ptr(3), Ptr(1)),
   PartitionNode(Ptr("n4"), Slice(<<"C">>), Ptr(2), Ptr(1)),
   PartitionNode(Ptr("n5"), NilSlice, Ptr(5), Ptr(0)),
   PartitionNode(Nil, Slice(<<"A">>), Ptr(1), Ptr(1)),
   PartitionNode(Ptr("n7"), Slice(<<"B">>), Nil, Nil)}

\* jobs of the jobs response: pending and other jobs of A, jobs naming two
\* partitions, a partition D that nothing else names, the same partition
\* twice, an empty field and an absent one
PartitionJobs ==
  {PartitionJob(Slice(<<"PENDING">>), Ptr("A")),
   PartitionJob(Slice(<<"RUNNING">>), Ptr("A")),
   PartitionJob(Slice(<<"PENDING">>), Ptr("A,B")),
   PartitionJob(Slice(<<"COMPLETED">>), Ptr("D")),
   PartitionJob(Slice(<<"PENDING">>), Ptr("A,A")),
   PartitionJob(Slice(<<"PENDING">>), Ptr("")),
   PartitionJob(Slice(<<"PENDING">>), Nil)}

\* snapshots rich in partitions and nodes with few jobs, and snapshots rich in
\* jobs with few partitions and nodes
InitPartitions ==
  /\ \/ /\ partitions \in SeqsUpTo(PartitionRecords, MaxPartitions)
        /\ nodes \in SeqsUpTo(PartitionNodes, MaxNodes)
        /\ jobs \in {<<>>, <<PartitionJob(Slice(<<"PENDING">>), Ptr("D"))>>,
                     <<PartitionJob(Slice(<<"PENDING">>), Nil)>>}
     \/ /\ partitions \in {<<>>, <<Partition(Ptr("A"), Ptr(10))>>,
                           <<Partition(Ptr("A"), Nil)>>}
        /\ nodes \in {<<>>, <<PartitionNode(Ptr("n1"), Slice(<<"A">>), Ptr(4), Ptr(2))>>,
                      <<PartitionNode(Nil, Slice(<<"A">>), Ptr(1), Ptr(1))>>}
        /\ jobs \in SeqsUpTo(PartitionJobs, MaxJobs)
  /\ diag = NoDiag
  /\ shares = <<>>
  /\ call = "none"
  /\ argi = 0
  /\ ret = NoRet

CallParsePartitionsMetrics ==
  /\ call' = "ParsePartitionsMetrics"
  /\ argi' = 0
  /\ \E order \in PartitionRangeOrders(partitions, nodes) :
       ret' = ParsePartitionsMetrics(partitions, jobs, nodes, order)
  /\ UNCHANGED <<jobs, nodes, partitions, diag, shares>>

NextPartitions == CallParsePartitionsMetrics

SpecPartitions == InitPartitions /\ [][NextPartitions]_vars

\* the nodes that list partition P among their memberships
MembersOf(P) ==
  {i \in 1..Len(nodes) :
     ~nodes[i].Partitions.null
     /\ \E k \in 1..Len(nodes[i].Partitions.elems) : nodes[i].Partitions.elems[k] = P}

\* the allocated and the idle CPU count of a node, 0 when not reported
AllocOf(n) == IF n.AllocCpus = Nil THEN 0 ELSE n.AllocCpus[1]
IdleOf(n) == IF n.AllocIdleCpus = Nil THEN 0 ELSE n.AllocIdleCpus[1]

\* C14: in the returned mapping every partition's cpus_allocated and cpus_idle
\* are the sums of the allocated and idle CPU counts of the nodes that list
\* the partition, a node of several partitions counting in full for each, and
\* every record satisfies cpus_other = cpus_total - cpus_allocated - cpus_idle
\* without clamping; A with total 10 and member nodes (4,2) and (3,1) gives
\* 7, 3 and 0.
C14_PartitionCpuSums ==
  (call = "ParsePartitionsMetrics" /\ ret.kind = "ok") =>
    LET m == Deref(ret.val) IN
    /\ \A P \in DOMAIN m :
         /\ m[P].cpus_allocated = SumOver([i \in MembersOf(P) |-> AllocOf(nodes[i])], MembersOf(P))
         /\ m[P].cpus_idle = SumOver([i \in MembersOf(P) |-> IdleOf(nodes[i])], MembersOf(P))
         /\ m[P].cpus_other = m[P].cpus_total - m[P].cpus_allocated - m[P].cpus_idle
    /\ \A i \in 1..Len(nodes) : \A P \in {"A", "B", "C"} :
         i \in MembersOf(P) => P \in DOMAIN m
    /\ ( /\ partitions = <<Partition(Ptr("A"), Ptr(10))>>
         /\ nodes = <<PartitionNode(Ptr("n1"), Slice(<<"A">>), Ptr(4), Ptr(2)),
                      PartitionNode(Ptr("n2"), Slice(<<"A">>), Ptr(3), Ptr(1))>> )
       => /\ m["A"].cpus_allocated = 7
          /\ m["A"].cpus_idle = 3
          /\ m["A"].cpus_other = 0

\* a node of A and B next to a node of C, a partition created by the node
\* phase, whose cpus_other goes below zero
C14_Witness ==
  /\ call = "ParsePartitionsMetrics"
  /\ ret.kind = "ok"
  /\ partitions = <<Partition(Ptr("A"), Ptr(10)), Partition(Ptr("B"), Ptr(4))>>
  /\ nodes = <<PartitionNode(Ptr("n3"), Slice(<<"A", "B">>), Ptr(3), Ptr(1)),
               PartitionNode(Ptr("n4"), Slice(<<"C">>), Ptr(2), Ptr(1))>>
  /\ Deref(ret.val)["A"].cpus_allocated = 3
  /\ Deref(ret.val)["B"].cpus_allocated = 3
  /\ Deref(ret.val)["B"].cpus_other = 0
  /\ Deref(ret.val)["C"].cpus_other = 0 - 3


\* how often partition P is named in the comma-separated partition field of job j
NamedBy(j, P) ==
  LET pnames == Split(Deref(j.Partition), ",")
  IN Cardinality({k \in 1..Len(pnames) : pnames[k] = P})

\* the partition names a partitions record or a node's partition list brings in
SeenBeforeJobs ==
  {Deref(partitions[i].Name) : i \in {x \in 1..Len(partitions) : ~IsNil(partitions[x].Name)}}
  \cup UNION {{nodes[i].Partitions.elems[k] : k \in 1..Len(nodes[i].Partitions.elems)} :
                i \in 1..Len(nodes)}

PendingJobsOf(P) ==
  {i \in 1..Len(jobs) :
     GetJobState(jobs[i]).val = Ptr("JobStatePending") /\ NamedBy(jobs[i], P) > 0}

\* C17: jobs_pending of a partition is the number of jobs whose classified
\* state is Pending and whose partition field names the partition; a job in
\* another state does not raise it.  Stated for the snapshots where no job
\* names a partition twice.
C17_OnlyPendingJobsCounted ==
  ( /\ call = "ParsePartitionsMetrics"
    /\ ret.kind = "ok"
    /\ \A i \in 1..Len(jobs) : \A P \in {"", "A", "B", "D"} : NamedBy(jobs[i], P) <= 1 ) =>
    \A P \in DOMAIN Deref(ret.val) :
      Deref(ret.val)[P].jobs_pending = Cardinality(PendingJobsOf(P))


(***************************************************************************)
(* Cluster GPU totals, node inventory, scheduler diagnostics and           *)
(* fair-share.                                                             *)
(***************************************************************************)
RECURSIVE GCD(_, _)
GCD(a, b) == IF b = 0 THEN a ELSE GCD(b, a % b)

\* the float64 quotient a / b of two whole numbers that are not negative, as
\* a fraction in lowest terms; 0/0 is NaN and x/0 an infinity
Quotient(a, b) ==
  IF b = 0 THEN [num |-> IF a = 0 THEN 0 ELSE 1, den |-> 0]
  ELSE [num |-> a \div GCD(a, b), den |-> b \div GCD(a, b)]

NewGPUsMetrics == [alloc |-> 0, idle |-> 0, other |-> 0, total |-> 0, utilization |-> 0]

\* the range loop of ParseGPUsMetrics from node i on, then the utilization
RECURSIVE gpusLoop(_, _, _)
gpusLoop(ns, i, gm) ==
  IF i > Len(ns)
  THEN Ok(Ptr([gm EXCEPT !.utilization = Quotient(gm.alloc, gm.total)]))
  ELSE LET totalGPUs == GetNodeGPUTotal(ns[i]) IN
       IF totalGPUs.kind = "panic" THEN Panic
       ELSE IF totalGPUs.kind = "err"
       THEN Err("failed to get total gpu count for node: " \o totalGPUs.msg)
       ELSE LET allocGPUs == GetNodeGPUAllocated(ns[i]) IN
            IF allocGPUs.kind = "panic" THEN Panic
            ELSE IF allocGPUs.kind = "err"
            THEN Err("failed to get allocated gpu count for node: " \o allocGPUs.msg)
            ELSE gpusLoop(ns, i + 1,
                   [gm EXCEPT !.total = @ + totalGPUs.val,
                              !.alloc = @ + allocGPUs.val,
                              !.idle = @ + (totalGPUs.val - allocGPUs.val)])

ParseGPUsMetrics(nodesResp) == gpusLoop(nodesResp, 1, NewGPUsMetrics)

\* strings.Join of the classified states from the k-th on
RECURSIVE joinStates(_, _, _)
joinStates(states, k, delim) ==
  IF k > Len(states) THEN ""
  ELSE IF k = Len(states) THEN states[k]
  ELSE states[k] \o delim \o joinStates(states, k + 1, delim)

GetNodeStatesString(node, delim) ==
  LET states == GetNodeStates(node) IN
  IF states.kind = "err" THEN Err("failed to get node states: " \o states.msg)
  ELSE Ok(joinStates(Deref(states.val), 1, delim))

GetNodeAllocMemory(node) ==
  IF IsNil(node.AllocMemory) THEN 0 ELSE Deref(node.AllocMemory)

GetNodeTotalMemory(node) ==
  IF IsNil(node.RealMemory) THEN 0 ELSE Deref(node.RealMemory)

GetNodeOtherCPUs(node) == 0

GetNodeTotalCPUs(node) == IF IsNil(node.Cpus) THEN 0 ELSE Deref(node.Cpus)

\* the range loop of ParseNodeMetrics from node i on; a node without a
\* hostname is a nil dereference
RECURSIVE nodeMapLoop(_, _, _)
nodeMapLoop(ns, i, nodeMap) ==
  IF i > Len(ns) THEN Ok(Ptr(nodeMap))
  ELSE LET n == ns[i] IN
       IF IsNil(n.Hostname) THEN Panic
       ELSE LET nodeName == Deref(n.Hostname)
                nodeStatesStr == GetNodeStatesString(n, "|")
                rest == [k \in DOMAIN nodeMap \ {nodeName} |-> nodeMap[k]]
            IN IF nodeStatesStr.kind = "err"
               THEN Err("failed to get node state: " \o nodeStatesStr.msg)
               ELSE nodeMapLoop(ns, i + 1,
                      rest @@ (nodeName :>
                        [memAlloc |-> GetNodeAllocMemory(n),
                         memTotal |-> GetNodeTotalMemory(n),
                         cpuAlloc |-> GetNodeAllocCPUs(n),
                         cpuIdle |-> GetNodeIdleCPUs(n),
                         cpuOther |-> GetNodeOtherCPUs(n),
                         cpuTotal |-> GetNodeTotalCPUs(n),
                         nodeStatus |-> nodeStatesStr.val]))

ParseNodeMetrics(nodesResp) == nodeMapLoop(nodesResp, 1, <<>>)

\* util.GetValueOrZero: the value behind the pointer, zero for nil
GetValueOrZero(p) == IF IsNil(p) THEN 0 ELSE Deref(p)

ParseSchedulerMetrics(diagResp) ==
  LET s == diagResp.Statistics IN
  Ok(Ptr([threads |-> GetValueOrZero(s.ServerThreadCount),
          queue_size |-> GetValueOrZero(s.AgentQueueSize),
          dbd_queue_size |-> GetValueOrZero(s.DbdAgentQueueSize),
          last_cycle |-> GetValueOrZero(s.ScheduleCycleLast),
          mean_cycle |-> GetValueOrZero(s.ScheduleCycleMean),
          cycle_per_minute |-> GetValueOrZero(s.ScheduleCyclePerMinute),
          backfill_depth_mean |-> GetValueOrZero(s.BfDepthMean),
          backfill_last_cycle |-> GetValueOrZero(s.BfCycleLast),
          backfill_mean_cycle |-> GetValueOrZero(s.BfCycleMean),
          total_backfilled_jobs_since_cycle |-> GetValueOrZero(s.BfBackfilledJobs),
          total_backfilled_jobs_since_start |-> GetValueOrZero(s.BfLastBackfilledJobs),
          total_backfilled_heterogeneous |-> GetValueOrZero(s.BfBackfilledHetJobs)]))

\* Name and Fairshare.Level are pointers
Share(name, level) == [Name |-> name, Fairshare |-> [Level |-> level]]

\* the range loop of ParseFairShareMetrics from share i on; a share without a
\* name or a level is a nil dereference
RECURSIVE sharesLoop(_, _, _)
sharesLoop(ss, i, accounts) ==
  IF i > Len(ss) THEN Ok(Ptr(accounts))
  ELSE IF IsNil(ss[i].Name) \/ IsNil(ss[i].Fairshare.Level) THEN Panic
  ELSE LET account == Deref(ss[i].Name)
           rest == [k \in DOMAIN accounts \ {account} |-> accounts[k]]
       IN sharesLoop(ss, i + 1,
            rest @@ (account :> [fairshare |-> Deref(ss[i].Fairshare.Level)]))

ParseFairShareMetrics(sharesResp) == sharesLoop(sharesResp, 1, <<>>)


(***************************************************************************)
(* Every aggregator called, again and again, on one snapshot.              *)
(***************************************************************************)
\* a job with every field an aggregator reads
RerunJob(account, user, state, cpus, dependency, partition) ==
  Job(account, user, state, cpus) @@ [Dependency |-> dependency, Partition |-> partition]

\* a node with every field an aggregator reads
RerunNode(hostname, state, parts, alloc, idle, tres, tresUsed) ==
  Node(state, Ptr(8), idle, tres, tresUsed)
    @@ [Name |-> hostname, Hostname |-> hostname, Partitions |-> parts,
        AllocCpus |-> alloc, AllocMemory |-> Ptr(16), RealMemory |-> Ptr(64)]

RerunJobPending ==
  RerunJob(Ptr("physics"), Ptr("alice"), Slice(<<"PENDING">>), Ptr(4), Ptr(""), Ptr("A,B"))

\* a pending job of two partitions, a running job with a dependency and a job
\* of which nothing resolves
RerunJobs ==
  {RerunJobPending,
   RerunJob(Ptr("chem"), Ptr("bob"), Slice(<<"RUNNING">>), Ptr(2), Ptr("afterok:17"), Ptr("B")),
   RerunJob(Nil, Ptr("alice"), Slice(<<"BOOT_FAIL">>), Ptr(1), Nil, Nil)}

RerunNodeMixed ==
  RerunNode(Ptr("n1"), Slice(<<"MIXED", "DRAIN">>), Slice(<<"A">>), Ptr(4), Ptr(2),
            Ptr("cpu=8,gres/gpu=4"), Ptr("cpu=4,gres/gpu=1"))

RerunNodeIdle ==
  RerunNode(Ptr("n2"), Slice(<<"IDLE">>), Slice(<<"A", "B">>), Ptr(3), Ptr(1),
            Ptr("cpu=8"), Ptr("cpu=3"))

\* a node with GPUs in two states, a node of two partitions without GPUs, a
\* node whose GPU count does not parse and a node of which nothing resolves
RerunNodes ==
  {RerunNodeMixed, RerunNodeIdle,
   RerunNode(Ptr("n3"), Slice(<<"ALLOCATED">>), Slice(<<"C">>), Ptr(2), Ptr(1),
             Ptr("cpu=8,gres/gpu=x"), Ptr("")),
   RerunNode(Nil, Slice(<<"PLANNED">>), NilSlice, Nil, Nil, Nil, Nil)}

RerunDiag ==
  [Statistics |->
     [NoDiag.Statistics EXCEPT !.ServerThreadCount = Ptr(3), !.AgentQueueSize = Ptr(1),
                               !.ScheduleCycleLast = Ptr(7), !.BfBackfilledJobs = Ptr(2)]]

\* jobs-rich and nodes-rich snapshots, with and without partitions,
\* diagnostics and shares
InitRerun ==
  /\ \/ /\ jobs \in SeqsUpTo(RerunJobs, MaxJobs)
        /\ nodes \in {<<>>, <<RerunNodeMixed, RerunNodeIdle>>}
     \/ /\ nodes \in SeqsUpTo(RerunNodes, MaxNodes)
        /\ jobs \in {<<>>, <<RerunJobPending>>}
  /\ partitions \in {<<>>, <<Partition(Ptr("A"), Ptr(10)), Partition(Ptr("B"), Ptr(4))>>}
  /\ \/ diag = NoDiag /\ shares = <<>>
     \/ /\ diag = RerunDiag
        /\ shares \in {<<Share(Ptr("physics"), Ptr(5)), Share(Ptr("chem"), Ptr(3)),
                         Share(Ptr("physics"), Ptr(7))>>,
                       <<Share(Ptr("physics"), Ptr(5)), Share(Nil, Ptr(3))>>}
  /\ call = "none"
  /\ argi = 0
  /\ ret = NoRet

CallParseGPUsMetrics ==
  /\ call' = "ParseGPUsMetrics"
  /\ argi' = 0
  /\ ret' = ParseGPUsMetrics(nodes)
  /\ UNCHANGED <<jobs, nodes, partitions, diag, shares>>

CallParseNodeMetrics ==
  /\ call' = "ParseNodeMetrics"
  /\ argi' = 0
  /\ ret' = ParseNodeMetrics(nodes)
  /\ UNCHANGED <<jobs, nodes, partitions, diag, shares>>

CallParseSchedulerMetrics ==
  /\ call' = "ParseSchedulerMetrics"
  /\ argi' = 0
  /\ ret' = ParseSchedulerMetrics(diag)
  /\ UNCHANGED <<jobs, nodes, partitions, diag, shares>>

CallParseFairShareMetrics ==
  /\ call' = "ParseFairShareMetrics"
  /\ argi' = 0
  /\ ret' = ParseFairShareMetrics(shares)
  /\ UNCHANGED <<jobs, nodes, partitions, diag, shares>>

NextRerun ==
  \/ CallParseAccountsMetrics
  \/ CallParseUsersMetrics
  \/ CallParseCPUsMetrics
  \/ CallParseGPUsMetrics
  \/ CallParseNodeMetrics
  \/ CallParseNodesMetrics
  \/ CallParseQueueMetrics
  \/ CallParseSchedulerMetrics
  \/ CallParseFairShareMetrics
  \/ CallParsePartitionsMetrics

SpecRerun == InitRerun /\ [][NextRerun]_vars

====
